---- MODULE Spec2Model ----
(***************************************************************************)
(* Model of stepfunction.core.step_function.StepFunction: the step         *)
(* registry, the execute loop with branch / next / on_failure routing, the *)
(* thread-pool coordinator _execute_parallel and the sub-workflow adapter  *)
(* built by add_sub_step_function.                                         *)
(*                                                                         *)
(* Two engines exist: "main", driven by the caller, and "sub", a nested    *)
(* StepFunction that "main" may wrap as a step.                            *)
(***************************************************************************)
EXTENDS Integers, Sequences, FiniteSets, TLC

(***************************************************************************)
(* Bounds                                                                  *)
(***************************************************************************)
\* number of tasks in the func dict of a parallel step
MaxTasks == 2

TaskPool == <<"x", "y", "z", "w">>
Tasks == {TaskPool[i] : i \in 1..MaxTasks}

(***************************************************************************)
(* Python values.  Every value has the same record shape so that values    *)
(* of different Python types can be compared: a str, a dict of str, None.  *)
(***************************************************************************)
PyStr(s) == [k |-> "str", s |-> s, d |-> <<>>]
PyDict(f) == [k |-> "dict", s |-> "", d |-> f]
PyNone == [k |-> "none", s |-> "", d |-> <<>>]
\* a local variable that has not been assigned yet
Unbound == [k |-> "unbound", s |-> "", d |-> <<>>]

\* the falsy cursor / unset next_step / unset on_failure
NONE == "None"

(***************************************************************************)
(* Exceptions: type and args tuple.                                        *)
(***************************************************************************)
Exc(type, args) == [type |-> type, args |-> args]
NoExc == Exc("", <<>>)

\* str(exc) of an exception whose args are strings
ExcStr(exc) == IF Len(exc.args) = 0 THEN "" ELSE exc.args[1].s

\* repr(exc), as it appears inside a formatted list
ExcRepr(exc) ==
  IF Len(exc.args) = 0 THEN exc.type \o "()"
  ELSE exc.type \o "('" \o exc.args[1].s \o "')"

\* what evaluating exc.args[0] on an empty args tuple raises
IndexError == Exc("IndexError", <<PyStr("tuple index out of range")>>)

\* what reading the unassigned local `result` raises
UnboundLocalError ==
  Exc("UnboundLocalError",
      <<PyStr("cannot access local variable 'result' where it is not associated with a value")>>)

\* what `result in step['branch']` raises when result is a dict
TypeError == Exc("TypeError", <<PyStr("unhashable type: 'dict'")>>)

KeyError(name) == Exc("KeyError", <<PyStr(name)>>)

StepExecutionError(exc) ==
  Exc("StepExecutionError", <<PyStr("Step generated an exception: " \o ExcStr(exc))>>)

RECURSIVE ErrorsRepr(_)
\* str(errors) of the list of (step_name, exc) pairs
ErrorsRepr(errs) ==
  IF Len(errs) = 0 THEN ""
  ELSE "('" \o errs[1][1] \o "', " \o ExcRepr(errs[1][2]) \o ")"
       \o (IF Len(errs) > 1 THEN ", " ELSE "") \o ErrorsRepr(Tail(errs))

ParallelStepExecutionError(errs) ==
  Exc("ParallelStepExecutionError",
      <<PyStr("Parallel step generated an exception: [" \o ErrorsRepr(errs) \o "]")>>)

(***************************************************************************)
(* dict with insertion order: a sequence of <<key, value>> pairs.          *)
(***************************************************************************)
Keys(dict) == {dict[i][1] : i \in 1..Len(dict)}

DictGet(dict, key) == dict[CHOOSE i \in 1..Len(dict) : dict[i][1] = key][2]

\* dict[key] = value with an existing key moved to the end
DictSet_reinserted(dict, key, value) ==
  Append(SelectSeq(dict, LAMBDA kv : kv[1] # key), <<key, value>>)

\* dict[key] = value: an existing key keeps its position, a new key is appended
DictSet(dict, key, value) ==
  IF key \in Keys(dict)
  THEN [i \in 1..Len(dict) |-> IF dict[i][1] = key THEN <<key, value>> ELSE dict[i]]
  ELSE Append(dict, <<key, value>>)

\* dict.update(other) left out
DictUpdate_skipped(dict, other) == dict

RECURSIVE DictUpdate(_, _)
\* dict.update(other)
DictUpdate(dict, other) ==
  IF Len(other) = 0 THEN dict
  ELSE DictUpdate(DictSet(dict, other[1][1], other[1][2]), Tail(other))

(***************************************************************************)
(* The registry.                                                           *)
(***************************************************************************)
Engines == {"main", "sub"}

\* step names a caller registers in each engine
Names(e) == IF e = "main" THEN {"A", "B"} ELSE {"S", "T"}

\* func: a callable, a dict of task callables, or the sub_func closure
StepParams(func, next_step, on_failure, branch, parallel, stop_on_failure, is_sub) ==
  [func |-> func, next_step |-> next_step, on_failure |-> on_failure,
   branch |-> branch, parallel |-> parallel,
   stop_on_failure |-> stop_on_failure, is_sub_step_function |-> is_sub]

\* values a step action returns, and the payload its failure carries
Returns == {"ok", "bad"}
Payload == "err"
\* the value the caller passes to execute
InitialInput == "in"
\* the value one task returns and the payload its failure carries
TaskReturn(t) == "r_" \o t
TaskPayload(t) == "e_" \o t

\* what calling a step action or a task can do: return a value, raise an
\* exception carrying a payload, or raise an exception with empty args
ActionOutcomes ==
  {[exc |-> NoExc, value |-> PyStr(r)] : r \in Returns}
  \cup {[exc |-> Exc("Exception", <<PyStr(Payload)>>), value |-> PyNone],
        [exc |-> Exc("Exception", <<>>), value |-> PyNone]}

TaskOutcomes(t) ==
  {[exc |-> NoExc, value |-> PyStr(TaskReturn(t))],
   [exc |-> Exc("Exception", <<PyStr(TaskPayload(t))>>), value |-> PyNone],
   [exc |-> Exc("Exception", <<>>), value |-> PyNone]}

\* a future that has not completed yet
Pending == [exc |-> NoExc, value |-> Unbound]

\* the registrations a caller makes for the start step A of the main engine:
\* add_step with a callable or a dict of tasks, or add_sub_step_function
StartDefs ==
  {StepParams("callable", n, o, b, FALSE, FALSE, FALSE) :
     n \in {NONE, "A", "B"}, o \in {NONE, "B"}, b \in {<<>>, ("ok" :> "B")}}
  \cup
  {StepParams("dict", n, o, b, TRUE, s, FALSE) :
     n \in {NONE, "B"}, o \in {NONE, "B"}, b \in {<<>>, ("ok" :> "A")},
     s \in BOOLEAN}
  \cup
  {StepParams("sub_func", n, o, <<>>, FALSE, FALSE, TRUE) :
     n \in {NONE, "B"}, o \in {NONE, "B"}}

\* the registrations a caller makes for B, the step that A routes to
TargetDefs ==
  {StepParams("callable", n, NONE, <<>>, FALSE, FALSE, FALSE) : n \in {NONE, "A"}}
  \cup
  {StepParams("dict", NONE, NONE, b, TRUE, s, FALSE) :
     b \in {<<>>, ("ok" :> "A")}, s \in BOOLEAN}
  \cup
  {StepParams("sub_func", NONE, NONE, <<>>, FALSE, FALSE, TRUE)}

\* the registries of the main engine: A registered, B registered or not
MainRegistries ==
  {("A" :> a) : a \in StartDefs}
  \cup {("A" :> a) @@ ("B" :> b) : a \in StartDefs, b \in TargetDefs}

\* the nested engine: step S, with or without the failure handler T
SubRegistry(on_failure) ==
  ("S" :> StepParams("callable", NONE, on_failure, <<>>, FALSE, FALSE, FALSE))
  @@ ("T" :> StepParams("callable", NONE, NONE, <<>>, FALSE, FALSE, FALSE))

HasSubStep(reg) == \E n \in DOMAIN reg : reg[n].is_sub_step_function

\* the engines a caller builds: a main registry, and the nested engine's
\* registry when a step of the main registry wraps it
Registries ==
  {r \in {[e \in Engines |-> IF e = "main" THEN m ELSE SubRegistry(o)] :
            m \in MainRegistries, o \in {NONE, "T"}} :
     HasSubStep(r["main"]) \/ r["sub"] = SubRegistry(NONE)}

VARIABLES
  steps,          \* __steps of each engine
  current_step,   \* __current_step
  last_result,    \* __last_result
  context,        \* __context
  status,         \* __status
  pc,             \* where each engine's execute coroutine stands
  result,         \* the local `result` of each engine's running execute
  raised,         \* the exception that left each engine's execute
  futures,        \* _execute_parallel: outcome of each submitted future
  yielded,        \* futures as_completed has handed to the loop, in order
  results,        \* _execute_parallel: results
  errors,         \* _execute_parallel: errors
  should_stop_execution,
  par_pc,         \* _execute_parallel: "for", "exit" (leaving the with block)
  par_exc,        \* exception propagating out of the for loop
  trace,          \* per engine, the latest loop iteration of the running call
  call            \* the latest registration call since the last call of execute

vars == <<steps, current_step, last_result, context, status, pc, result, raised,
          futures, yielded, results, errors, should_stop_execution, par_pc,
          par_exc, trace, call>>

engine_vars == <<current_step, last_result, context, status, pc, result, raised, trace>>
pool_vars == <<futures, yielded, results, errors, should_stop_execution, par_pc, par_exc>>

\* the positions of execute at which a call is in progress
Running == {"loop", "parallel", "sub_func"}

NoTrace == [step |-> NONE, input |-> PyNone, call |-> "none", outcome |-> "none",
            exc |-> NoExc, failed |-> FALSE, written |-> {}]

\* no registration call has been made yet
NoParams == StepParams("", NONE, NONE, <<>>, FALSE, FALSE, FALSE)
NoCall == [op |-> "none", name |-> NONE, params |-> NoParams, error |-> NoExc]

\* __init__, then the caller's registrations and set_start_step
Init ==
  /\ call = NoCall
  /\ steps \in Registries
  /\ current_step = [e \in Engines |-> IF e = "main" THEN "A" ELSE "S"]
  /\ last_result = [e \in Engines |-> PyNone]
  /\ context = [e \in Engines |-> <<>>]
  /\ status = [e \in Engines |-> "INITIALIZED"]
  /\ pc = [e \in Engines |-> "idle"]
  /\ result = [e \in Engines |-> Unbound]
  /\ raised = [e \in Engines |-> NoExc]
  /\ futures = <<>>
  /\ yielded = <<>>
  /\ results = <<>>
  /\ errors = <<>>
  /\ should_stop_execution = FALSE
  /\ par_pc = "idle"
  /\ par_exc = NoExc
  /\ trace = [e \in Engines |-> NoTrace]

(***************************************************************************)
(* The fields of one engine as a record, and their write-back.             *)
(***************************************************************************)
Frame(e) ==
  [current_step |-> current_step[e], last_result |-> last_result[e],
   context |-> context[e], status |-> status[e], pc |-> pc[e],
   result |-> result[e], raised |-> raised[e], trace |-> trace[e]]

\* F maps some engines to their new fields; the others keep theirs
Commit(F) ==
  /\ current_step' = [e \in Engines |-> IF e \in DOMAIN F THEN F[e].current_step ELSE current_step[e]]
  /\ last_result' = [e \in Engines |-> IF e \in DOMAIN F THEN F[e].last_result ELSE last_result[e]]
  /\ context' = [e \in Engines |-> IF e \in DOMAIN F THEN F[e].context ELSE context[e]]
  /\ status' = [e \in Engines |-> IF e \in DOMAIN F THEN F[e].status ELSE status[e]]
  /\ pc' = [e \in Engines |-> IF e \in DOMAIN F THEN F[e].pc ELSE pc[e]]
  /\ result' = [e \in Engines |-> IF e \in DOMAIN F THEN F[e].result ELSE result[e]]
  /\ raised' = [e \in Engines |-> IF e \in DOMAIN F THEN F[e].raised ELSE raised[e]]
  /\ trace' = [e \in Engines |-> IF e \in DOMAIN F THEN F[e].trace ELSE trace[e]]

(***************************************************************************)
(* execute: the pieces of one loop iteration.                              *)
(***************************************************************************)
\* end_of_iteration with the test `status != FAILED` left out
end_of_iteration_no_failed_test(f) ==
  [f EXCEPT !.status = IF f.current_step = NONE THEN "COMPLETED" ELSE f.status,
            !.pc = IF f.current_step = NONE THEN "returned" ELSE "loop"]

\* end_of_iteration with the test `not current_step` left out
end_of_iteration_no_cursor_test(f) ==
  [f EXCEPT !.status = IF f.status # "FAILED" THEN "COMPLETED" ELSE f.status,
            !.pc = IF f.current_step = NONE THEN "returned" ELSE "loop"]

\* `if not current_step and status != FAILED: status = COMPLETED`, then the
\* `while self.__current_step` test that decides whether execute returns
end_of_iteration(f) ==
  LET st == IF f.current_step = NONE /\ f.status # "FAILED"
            THEN "COMPLETED" ELSE f.status
  IN [f EXCEPT !.status = st,
               !.pc = IF f.current_step = NONE THEN "returned" ELSE "loop"]

\* except_block without `self.__last_result = exc.args[0]`
except_block_keeps_last_result(e, f, exc) ==
  LET step == steps[e][f.current_step]
      tr == [f.trace EXCEPT !.outcome = "failed", !.exc = exc, !.failed = TRUE]
      trw == [tr EXCEPT !.written = tr.written \cup {f.current_step}]
  IN IF Len(exc.args) = 0
     THEN [f EXCEPT !.pc = "raised", !.raised = IndexError, !.trace = tr]
     ELSE LET payload == exc.args[1]
              ctx == DictSet(f.context, f.current_step, payload)
          IN IF step.on_failure # NONE
             THEN end_of_iteration(
                    [f EXCEPT !.context = ctx, !.current_step = step.on_failure,
                              !.status = "FAILED", !.trace = trw])
             ELSE [f EXCEPT !.context = ctx, !.status = "FAILED", !.pc = "raised",
                            !.raised = StepExecutionError(exc), !.trace = trw]

\* the except block of execute: f holds what the try block had already
\* assigned when exc was raised
except_block(e, f, exc) ==
  LET step == steps[e][f.current_step]
      tr == [f.trace EXCEPT !.outcome = "failed", !.exc = exc, !.failed = TRUE]
      trw == [tr EXCEPT !.written = tr.written \cup {f.current_step}]
  IN IF Len(exc.args) = 0
     THEN \* exc.args[0] raises IndexError inside the handler
          [f EXCEPT !.pc = "raised", !.raised = IndexError, !.trace = tr]
     ELSE LET payload == exc.args[1]
              ctx == DictSet(f.context, f.current_step, payload)
          IN IF step.on_failure # NONE
             THEN end_of_iteration(
                    [f EXCEPT !.context = ctx, !.current_step = step.on_failure,
                              !.last_result = payload, !.status = "FAILED",
                              !.trace = trw])
             ELSE [f EXCEPT !.context = ctx, !.status = "FAILED", !.pc = "raised",
                            !.raised = StepExecutionError(exc), !.trace = trw]

\* try_block with next_step tried before the branch mapping
try_block_next_step_first(e, f, value, parallel) ==
  LET step == steps[e][f.current_step]
      f1 == [f EXCEPT !.last_result = value,
                      !.context = DictSet(f.context, f.current_step, value),
                      !.result = IF parallel THEN f.result ELSE value,
                      !.trace = [f.trace EXCEPT
                                   !.call = "returned",
                                   !.written = f.trace.written \cup {f.current_step}]]
  IN IF step.branch # <<>> /\ f1.result = Unbound
     THEN except_block(e, f1, UnboundLocalError)
     ELSE IF step.branch # <<>> /\ f1.result.k = "dict"
     THEN except_block(e, f1, TypeError)
     ELSE end_of_iteration(
            [f1 EXCEPT !.current_step =
                          IF step.next_step # NONE THEN step.next_step
                          ELSE IF step.branch # <<>> /\ f1.result.s \in DOMAIN step.branch
                          THEN step.branch[f1.result.s] ELSE NONE,
                       !.trace = [f1.trace EXCEPT !.outcome = "succeeded"]])

\* the rest of the try block once the step's call has returned `value`:
\* record it, then select the next step
try_block(e, f, value, parallel) ==
  LET step == steps[e][f.current_step]
      f1 == [f EXCEPT !.last_result = value,
                      !.context = DictSet(f.context, f.current_step, value),
                      !.result = IF parallel THEN f.result ELSE value,
                      !.trace = [f.trace EXCEPT
                                   !.call = "returned",
                                   !.written = f.trace.written \cup {f.current_step}]]
  IN IF step.branch # <<>> /\ f1.result = Unbound
     THEN except_block(e, f1, UnboundLocalError)
     ELSE IF step.branch # <<>> /\ f1.result.k = "dict"
     THEN except_block(e, f1, TypeError)
     ELSE end_of_iteration(
            [f1 EXCEPT !.current_step =
                          IF step.branch # <<>> /\ f1.result.s \in DOMAIN step.branch
                          THEN step.branch[f1.result.s] ELSE step.next_step,
                       !.trace = [f1.trace EXCEPT !.outcome = "succeeded"]])

\* execute_begin that starts from an empty context
execute_begin_context_cleared(f, initial_input) ==
  [f EXCEPT !.status = "RUNNING", !.last_result = initial_input,
            !.context = <<>>,
            !.result = Unbound, !.raised = NoExc, !.trace = NoTrace,
            !.pc = IF f.current_step = NONE THEN "returned" ELSE "loop"]

\* the head of execute: status RUNNING, last_result = initial_input, and the
\* first `while self.__current_step` test
execute_begin(f, initial_input) ==
  [f EXCEPT !.status = "RUNNING", !.last_result = initial_input,
            !.result = Unbound, !.raised = NoExc, !.trace = NoTrace,
            !.pc = IF f.current_step = NONE THEN "returned" ELSE "loop"]

\* the latest-iteration record at the moment a step's call starts
StartTrace(f) ==
  [step |-> f.current_step, input |-> f.last_result, call |-> "running",
   outcome |-> "running", exc |-> NoExc, failed |-> f.trace.failed,
   written |-> f.trace.written]

(***************************************************************************)
(* Actions                                                                 *)
(***************************************************************************)
\* the caller awaits main.execute(initial_input)
Execute ==
  /\ pc["main"] \notin Running
  /\ Commit("main" :> execute_begin(Frame("main"), PyStr(InitialInput)))
  /\ call' = NoCall
  /\ UNCHANGED <<steps, pool_vars>>

\* unknown_step with the lookup placed inside the try block, so that the
\* KeyError is handled as the failure of a step without on_failure
unknown_step_as_failure(f) ==
  [f EXCEPT !.pc = "raised", !.raised = StepExecutionError(KeyError(f.current_step)),
            !.context = DictSet(f.context, f.current_step, PyStr(f.current_step)),
            !.status = "FAILED",
            !.trace = [StartTrace(f) EXCEPT !.call = "unknown", !.outcome = "unknown"]]

\* `step = self.__steps[self.__current_step]` on a name that is not registered:
\* the lookup stands before the try block, so its KeyError leaves execute
unknown_step(f) ==
  [f EXCEPT !.pc = "raised", !.raised = KeyError(f.current_step),
            !.trace = [StartTrace(f) EXCEPT !.call = "unknown", !.outcome = "unknown"]]

UnknownStep(e) ==
  /\ pc[e] = "loop"
  /\ current_step[e] \notin DOMAIN steps[e]
  /\ Commit(e :> unknown_step(Frame(e)))
  /\ UNCHANGED <<steps, call, pool_vars>>

\* one iteration on a step whose func is a plain callable
SingleStep(e) ==
  /\ pc[e] = "loop"
  /\ current_step[e] \in DOMAIN steps[e]
  /\ ~steps[e][current_step[e]].parallel
  /\ ~steps[e][current_step[e]].is_sub_step_function
  /\ \E o \in ActionOutcomes :
       LET f == [Frame(e) EXCEPT !.trace = StartTrace(Frame(e))]
       IN Commit(e :> IF o.exc = NoExc
                      THEN try_block(e, f, o.value, FALSE)
                      ELSE except_block(e, [f EXCEPT !.trace.call = "raised"], o.exc))
  /\ UNCHANGED <<steps, call, pool_vars>>

(***************************************************************************)
(* _execute_parallel                                                       *)
(***************************************************************************)
\* execute reaches a parallel step: _execute_parallel opens the pool and
\* submits every task of func_dict with last_result as its argument
ParallelSubmit(e) ==
  /\ pc[e] = "loop"
  /\ current_step[e] \in DOMAIN steps[e]
  /\ steps[e][current_step[e]].parallel
  /\ Commit(e :> [Frame(e) EXCEPT !.pc = "parallel",
                                  !.trace = StartTrace(Frame(e))])
  /\ futures' = [t \in Tasks |-> Pending]
  /\ yielded' = <<>>
  /\ results' = <<>>
  /\ errors' = <<>>
  /\ should_stop_execution' = FALSE
  /\ par_pc' = "for"
  /\ par_exc' = NoExc
  /\ UNCHANGED <<steps, call>>

\* a worker thread finishes task t
TaskComplete(t) ==
  /\ t \in DOMAIN futures
  /\ futures[t] = Pending
  /\ \E o \in TaskOutcomes(t) : futures' = [futures EXCEPT ![t] = o]
  /\ UNCHANGED <<steps, call, engine_vars, yielded, results, errors,
                 should_stop_execution, par_pc, par_exc>>

Yielded == {yielded[i] : i \in 1..Len(yielded)}

\* loop_pc for an as_completed that never runs out of futures
loop_pc_never_exhausted(brk, exc, ys) ==
  IF brk \/ exc # NoExc THEN "exit" ELSE "for"

\* the for loop leaves through break or an exception, or as_completed is
\* exhausted once every future has been yielded
loop_pc(brk, exc, ys) ==
  IF brk \/ exc # NoExc \/ Len(ys) = Cardinality(DOMAIN futures) THEN "exit" ELSE "for"

\* one iteration of `for future in as_completed(futures)`
AsCompleted(e) ==
  /\ pc[e] = "parallel"
  /\ par_pc = "for"
  /\ \E t \in DOMAIN futures \ Yielded :
       /\ futures[t] # Pending
       /\ yielded' = Append(yielded, t)
       /\ IF should_stop_execution
          THEN \* break
               /\ par_pc' = loop_pc(TRUE, NoExc, yielded')
               /\ UNCHANGED <<results, errors, should_stop_execution, par_exc>>
          ELSE IF futures[t].exc = NoExc
          THEN /\ results' = (t :> futures[t].value) @@ results
               /\ par_pc' = loop_pc(FALSE, NoExc, yielded')
               /\ UNCHANGED <<errors, should_stop_execution, par_exc>>
          ELSE IF Len(futures[t].exc.args) = 0
          THEN \* exc.args[0] raises IndexError inside the handler
               /\ par_exc' = IndexError
               /\ par_pc' = loop_pc(FALSE, IndexError, yielded')
               /\ UNCHANGED <<results, errors, should_stop_execution>>
          ELSE /\ results' = (t :> futures[t].exc.args[1]) @@ results
               /\ errors' = Append(errors, <<t, futures[t].exc>>)
               /\ should_stop_execution' =
                    (should_stop_execution \/ steps[e][current_step[e]].stop_on_failure)
               /\ par_pc' = loop_pc(FALSE, NoExc, yielded')
               /\ UNCHANGED par_exc
  /\ UNCHANGED <<steps, call, engine_vars, futures>>

\* parallel_raises with stop_on_failure disregarded after the loop
parallel_raises_ignore_stop(pexc, errs, stop_on_failure) ==
  IF pexc # NoExc THEN pexc ELSE NoExc

\* the tail of _execute_parallel: the exception it raises, or NoExc when it
\* returns results
parallel_raises(pexc, errs, stop_on_failure) ==
  IF pexc # NoExc THEN pexc
  ELSE IF Len(errs) > 0 /\ stop_on_failure THEN ParallelStepExecutionError(errs)
  ELSE NoExc

\* leaving the with block without joining the worker threads
shutdown_no_wait(futs) == TRUE

\* ThreadPoolExecutor.__exit__ is shutdown(wait=True): it returns once every
\* submitted task has finished
shutdown_wait(futs) == \A t \in DOMAIN futs : futs[t] # Pending

\* leaving the with block waits for every submitted task (shutdown(wait=True));
\* then _execute_parallel raises or returns, its locals are gone, and execute
\* finishes the iteration
ParallelExit(e) ==
  /\ pc[e] = "parallel"
  /\ par_pc = "exit"
  /\ shutdown_wait(futures)
  /\ futures' = <<>>
  /\ yielded' = <<>>
  /\ results' = <<>>
  /\ errors' = <<>>
  /\ should_stop_execution' = FALSE
  /\ par_pc' = "idle"
  /\ par_exc' = NoExc
  /\ LET f == Frame(e)
         exc == parallel_raises(par_exc, errors,
                                steps[e][current_step[e]].stop_on_failure)
     IN Commit(e :>
          IF exc = NoExc THEN try_block(e, f, PyDict(results), TRUE)
          ELSE \* status is set to FAILED before ParallelStepExecutionError is raised
               except_block(e,
                 [f EXCEPT !.status = IF exc.type = "ParallelStepExecutionError"
                                      THEN "FAILED" ELSE f.status,
                           !.trace.call = "raised"],
                 exc))
  /\ UNCHANGED <<steps, call>>

(***************************************************************************)
(* add_sub_step_function: sub_func                                         *)
(***************************************************************************)
\* execute reaches a sub-workflow step: sub_func awaits the nested execute
SubCall ==
  /\ pc["main"] = "loop"
  /\ current_step["main"] \in DOMAIN steps["main"]
  /\ steps["main"][current_step["main"]].is_sub_step_function
  /\ Commit(("main" :> [Frame("main") EXCEPT !.pc = "sub_func",
                                             !.trace = StartTrace(Frame("main"))])
            @@ ("sub" :> execute_begin(Frame("sub"), last_result["main"])))
  /\ UNCHANGED <<steps, call, pool_vars>>

\* the nested execute has ended: sub_func merges the nested context and
\* status and returns the nested last_result, or the nested exception
\* passes through sub_func into the parent's try block
SubReturn ==
  /\ pc["main"] = "sub_func"
  /\ pc["sub"] \notin Running
  /\ LET f == [Frame("main") EXCEPT
                 !.trace.failed = trace["main"].failed \/ trace["sub"].failed,
                 !.trace.written = IF pc["sub"] = "raised" THEN trace["main"].written
                                   ELSE trace["main"].written \cup Keys(context["sub"])]
     IN Commit("main" :>
          IF pc["sub"] = "raised"
          THEN except_block("main", [f EXCEPT !.trace.call = "raised"], raised["sub"])
          ELSE try_block("main",
                 [f EXCEPT !.context = DictUpdate(f.context, context["sub"]),
                           !.status = IF status["sub"] = "FAILED" THEN "FAILED"
                                      ELSE f.status],
                 last_result["sub"], FALSE))
  /\ UNCHANGED <<steps, call, pool_vars>>

Next ==
  \/ Execute
  \/ \E e \in Engines : UnknownStep(e)
  \/ \E e \in Engines : SingleStep(e)
  \/ \E e \in Engines : ParallelSubmit(e)
  \/ \E t \in Tasks : TaskComplete(t)
  \/ \E e \in Engines : AsCompleted(e)
  \/ \E e \in Engines : ParallelExit(e)
  \/ SubCall
  \/ SubReturn

Spec == Init /\ [][Next]_vars

TypeOK ==
  /\ \A e \in Engines :
       /\ status[e] \in {"INITIALIZED", "RUNNING", "COMPLETED", "FAILED"}
       /\ pc[e] \in {"idle", "returned", "raised"} \cup Running
       /\ current_step[e] \in {NONE} \cup Names(e)
  /\ par_pc \in {"idle", "for", "exit"}

(***************************************************************************)
(* Registration: add_step, add_sub_step_function, set_start_step, called   *)
(* on the main engine by the caller that awaits execute, so before and     *)
(* between calls of execute.                                               *)
(***************************************************************************)
ValueError(msg) == Exc("ValueError", <<PyStr(msg)>>)

\* add_step with the test `name in self.__steps` left out
add_step_no_duplicate_test(reg, name, params) ==
  [steps |-> (name :> params) @@ [n \in DOMAIN reg \ {name} |-> reg[n]],
   error |-> NoExc]

\* add_step: the registry after the call and the exception the call raises
add_step(reg, name, params) ==
  IF name \in DOMAIN reg
  THEN [steps |-> reg,
        error |-> ValueError("Step '" \o name \o "' already exists in steps")]
  ELSE [steps |-> (name :> params) @@ reg, error |-> NoExc]

\* add_sub_step_function: the stored definition wraps the nested engine in
\* sub_func, with no branch and no parallel execution
add_sub_step_function(reg, name, next_step, on_failure) ==
  IF name \in DOMAIN reg
  THEN [steps |-> reg,
        error |-> ValueError("Step '" \o name \o "' already exists in steps")]
  ELSE [steps |-> (name :> StepParams("sub_func", next_step, on_failure, <<>>,
                                      FALSE, FALSE, TRUE)) @@ reg,
        error |-> NoExc]

\* set_start_step with the test `name not in self.__steps` left out
set_start_step_no_lookup(reg, cursor, name) ==
  [current_step |-> name, error |-> NoExc]

\* set_start_step: the cursor after the call and the exception the call raises
set_start_step(reg, cursor, name) ==
  IF name \notin DOMAIN reg
  THEN [current_step |-> cursor,
        error |-> ValueError("Step '" \o name \o "' not found in steps")]
  ELSE [current_step |-> name, error |-> NoExc]

\* the definitions a caller passes to add_step
AddStepDefs ==
  {StepParams("callable", n, NONE, <<>>, FALSE, FALSE, FALSE) : n \in {NONE, "B"}}
  \cup {StepParams("dict", NONE, NONE, <<>>, TRUE, TRUE, FALSE)}

AddStep ==
  /\ pc["main"] \notin Running
  /\ \E name \in Names("main"), params \in AddStepDefs :
       LET r == add_step(steps["main"], name, params)
       IN /\ steps' = [steps EXCEPT !["main"] = r.steps]
          /\ call' = [op |-> "add_step", name |-> name, params |-> params,
                      error |-> r.error]
          /\ UNCHANGED <<engine_vars, pool_vars>>

AddSubStepFunction ==
  /\ pc["main"] \notin Running
  /\ \E name \in Names("main"), on_failure \in {NONE} :
       LET r == add_sub_step_function(steps["main"], name, NONE, on_failure)
       IN /\ steps' = [steps EXCEPT !["main"] = r.steps]
          /\ call' = [op |-> "add_sub_step_function", name |-> name,
                      params |-> StepParams("sub_func", NONE, on_failure, <<>>,
                                            FALSE, FALSE, TRUE),
                      error |-> r.error]
          /\ UNCHANGED <<engine_vars, pool_vars>>

SetStartStep ==
  /\ pc["main"] \notin Running
  /\ \E name \in Names("main") :
       LET r == set_start_step(steps["main"], current_step["main"], name)
       IN /\ current_step' = [current_step EXCEPT !["main"] = r.current_step]
          /\ call' = [op |-> "set_start_step", name |-> name, params |-> NoParams,
                      error |-> r.error]
          /\ UNCHANGED <<steps, last_result, context, status, pc, result, raised,
                         trace, pool_vars>>

\* __init__ of the main engine; the nested engine has been built already
InitReg ==
  /\ steps = [e \in Engines |-> IF e = "main" THEN <<>> ELSE SubRegistry(NONE)]
  /\ current_step = [e \in Engines |-> IF e = "main" THEN NONE ELSE "S"]
  /\ last_result = [e \in Engines |-> PyNone]
  /\ context = [e \in Engines |-> <<>>]
  /\ status = [e \in Engines |-> "INITIALIZED"]
  /\ pc = [e \in Engines |-> "idle"]
  /\ result = [e \in Engines |-> Unbound]
  /\ raised = [e \in Engines |-> NoExc]
  /\ futures = <<>>
  /\ yielded = <<>>
  /\ results = <<>>
  /\ errors = <<>>
  /\ should_stop_execution = FALSE
  /\ par_pc = "idle"
  /\ par_exc = NoExc
  /\ trace = [e \in Engines |-> NoTrace]
  /\ call = NoCall

NextReg ==
  \/ AddStep
  \/ AddSubStepFunction
  \/ SetStartStep
  \/ Next

SpecReg == InitReg /\ [][NextReg]_vars

(***************************************************************************)
(* Properties                                                              *)
(***************************************************************************)
\* the definition of the step the latest iteration of engine e was about
TraceStep(e) == steps[e][trace[e].step]
Traced(e) == trace[e].step \in DOMAIN steps[e]

\* C1: within one call of execute, once status is FAILED it stays FAILED
\* (so it is never COMPLETED) until the call has ended.
C1_StickyFailure ==
  [][\A e \in Engines :
       (pc[e] \in Running /\ status[e] = "FAILED") => status'[e] = "FAILED"]_vars

\* a step failed and was routed to its handler, the handler succeeded, the
\* cursor became empty and execute returned with status FAILED
C1_Witness ==
  /\ pc["main"] = "returned"
  /\ trace["main"].step = "B"
  /\ trace["main"].outcome = "succeeded"
  /\ trace["main"].failed
  /\ steps["main"]["A"].on_failure = "B"
  /\ status["main"] = "FAILED"

\* C2: when execute returns after a step that succeeded, status is COMPLETED
\* if no step failed during the call and FAILED otherwise; and status
\* becomes COMPLETED only in a step that leaves the cursor empty.
C2_StatusAtTermination ==
  /\ [](\A e \in Engines :
          (pc[e] = "returned" /\ trace[e].outcome = "succeeded")
          => status[e] = IF trace[e].failed THEN "FAILED" ELSE "COMPLETED")
  /\ [][\A e \in Engines :
          (status'[e] = "COMPLETED" /\ status[e] # "COMPLETED")
          => current_step'[e] = NONE]_vars

\* execute returned COMPLETED after two successful steps
C2_Witness ==
  /\ pc["main"] = "returned"
  /\ trace["main"].step = "B"
  /\ trace["main"].outcome = "succeeded"
  /\ ~trace["main"].failed
  /\ status["main"] = "COMPLETED"
  /\ current_step["main"] = NONE

\* C3: when the action of a non-parallel step without on_failure raises, with
\* or without a payload, execute raises StepExecutionError with status
\* FAILED, Context holds the payload under the step's name, and the failed
\* step stays the last one executed.
C3_FailureWithoutHandler ==
  \A e \in Engines :
    (/\ trace[e].call = "raised"
     /\ Traced(e)
     /\ ~TraceStep(e).parallel
     /\ TraceStep(e).on_failure = NONE)
    => /\ pc[e] = "raised"
       /\ raised[e].type = "StepExecutionError"
       /\ status[e] = "FAILED"
       /\ trace[e].step \in Keys(context[e])
       /\ Len(trace[e].exc.args) > 0
          => DictGet(context[e], trace[e].step) = trace[e].exc.args[1]

\* C4: when a step's action raises and the step has on_failure, execute does
\* not raise; Context holds the payload under the step's name, status is
\* FAILED, the cursor is the on_failure step, and that step is the next one
\* executed, with the payload as its input.
C4_FailureWithHandler ==
  /\ [](\A e \in Engines :
          (/\ trace[e].call = "raised"
           /\ Traced(e)
           /\ TraceStep(e).on_failure # NONE)
          => /\ pc[e] = "loop"
             /\ status[e] = "FAILED"
             /\ current_step[e] = TraceStep(e).on_failure
             /\ trace[e].step \in Keys(context[e])
             /\ DictGet(context[e], trace[e].step) = last_result[e]
             /\ Len(trace[e].exc.args) > 0
                => last_result[e] = trace[e].exc.args[1])
  /\ [][\A e \in Engines :
          (/\ trace[e].call = "raised"
           /\ Traced(e)
           /\ TraceStep(e).on_failure # NONE
           /\ trace'[e] # trace[e])
          => /\ trace'[e].step = TraceStep(e).on_failure
             /\ trace'[e].input = last_result[e]]_vars

TaskEntry(fut) ==
  IF fut.exc = NoExc THEN fut.value
  ELSE IF Len(fut.exc.args) > 0 THEN fut.exc.args[1] ELSE PyNone

\* engine e leaves _execute_parallel in this step
LeavesParallel(e) == pc[e] = "parallel" /\ pc'[e] # "parallel"

\* C6: a parallel step whose coordinator returned is successful and the
\* cursor becomes its next_step, whatever its branch mapping holds and
\* whatever ran before it.
C6_ParallelIgnoresBranch ==
  \A e \in Engines :
    (Traced(e) /\ TraceStep(e).parallel /\ trace[e].call = "returned")
    => /\ trace[e].outcome = "succeeded"
       /\ current_step[e] = TraceStep(e).next_step

\* C7: a parallel step with stop_on_failure false ends only when every task
\* has completed and been consumed; its result maps exactly the submitted
\* task names to their values or failure payloads, is recorded in Context
\* and as last_result; the step succeeds, does not set status to FAILED, and
\* the cursor becomes next_step.
C7_NonStopParallel ==
  [][\A e \in Engines :
       (LeavesParallel(e) /\ ~steps[e][current_step[e]].stop_on_failure)
       => /\ \A t \in Tasks : futures[t] # Pending
          /\ Yielded = Tasks
          /\ trace'[e].outcome = "succeeded"
          /\ pc'[e] # "raised"
          /\ last_result'[e] = PyDict([t \in Tasks |-> TaskEntry(futures[t])])
          /\ current_step[e] \in Keys(context'[e])
          /\ DictGet(context'[e], current_step[e]) = last_result'[e]
          /\ (status'[e] = "FAILED" => status[e] = "FAILED")
          /\ current_step'[e] = steps[e][current_step[e]].next_step]_vars

\* C8: when a task of a stop_on_failure parallel step without on_failure
\* fails, execute raises ParallelStepExecutionError built from the observed
\* (task_name, failure) pairs, with status FAILED.
C8_StopParallelRaises ==
  [][\A e \in Engines :
       (/\ LeavesParallel(e)
        /\ steps[e][current_step[e]].stop_on_failure
        /\ steps[e][current_step[e]].on_failure = NONE
        /\ \E t \in Tasks : futures[t].exc # NoExc)
       => /\ pc'[e] = "raised"
          /\ raised'[e] = ParallelStepExecutionError(errors)
          /\ status'[e] = "FAILED"]_vars

\* C9: when a task of a stop_on_failure parallel step with on_failure fails,
\* execute does not raise, the step counts as failed, status is FAILED, the
\* cursor is the on_failure step, and that step is the next one executed.
C9_StopParallelRouted ==
  /\ [][\A e \in Engines :
          (/\ LeavesParallel(e)
           /\ steps[e][current_step[e]].stop_on_failure
           /\ steps[e][current_step[e]].on_failure # NONE
           /\ \E t \in Tasks : futures[t].exc # NoExc)
          => /\ pc'[e] = "loop"
             /\ raised'[e] = NoExc
             /\ trace'[e].outcome = "failed"
             /\ status'[e] = "FAILED"
             /\ current_step'[e] = steps[e][current_step[e]].on_failure]_vars
  /\ [][\A e \in Engines :
          (/\ Traced(e)
           /\ TraceStep(e).parallel
           /\ TraceStep(e).stop_on_failure
           /\ TraceStep(e).on_failure # NONE
           /\ trace[e].call = "raised"
           /\ trace'[e] # trace[e])
          => /\ trace'[e].step = TraceStep(e).on_failure
             /\ trace'[e].step \in DOMAIN steps[e] => trace'[e].call # "unknown"]_vars

\* the stop_on_failure parallel step A had a failing task, was routed to B,
\* and B has been executed next
C9_Witness ==
  /\ steps["main"]["A"].parallel
  /\ steps["main"]["A"].stop_on_failure
  /\ steps["main"]["A"].on_failure = "B"
  /\ steps["main"]["A"].next_step = NONE
  /\ trace["main"].step = "B"
  /\ trace["main"].outcome = "succeeded"
  /\ trace["main"].failed
  /\ Keys(context["main"]) = {"A", "B"}
  /\ status["main"] = "FAILED"
  /\ pc["main"] = "returned"

\* C10: when the nested execute raises from a failing step without
\* on_failure and the parent's sub-workflow step has no on_failure, then
\* after the parent's execute has raised the parent's Context holds every
\* entry of the nested Context and the parent's status is FAILED.
C10_SubWorkflowFailure ==
  (/\ pc["main"] = "raised"
   /\ Traced("main")
   /\ TraceStep("main").is_sub_step_function
   /\ TraceStep("main").on_failure = NONE
   /\ pc["sub"] = "raised"
   /\ trace["sub"].call = "raised"
   /\ Traced("sub")
   /\ TraceStep("sub").on_failure = NONE)
  => /\ status["main"] = "FAILED"
     /\ \A i \in 1..Len(context["sub"]) :
          /\ context["sub"][i][1] \in Keys(context["main"])
          /\ DictGet(context["main"], context["sub"][i][1]) = context["sub"][i][2]

\* every entry of dict `other` is an entry of `dict`
HasEntries(dict, other) ==
  \A i \in 1..Len(other) :
    /\ other[i][1] \in Keys(dict)
    /\ DictGet(dict, other[i][1]) = other[i][2]

\* C11: sub_func passes the parent's last_result to the nested execute; the
\* parent's Context and status do not change while the nested execute runs;
\* when it has returned, every nested Context entry is in the parent's
\* Context, the parent's status is FAILED if the nested status is FAILED and
\* otherwise only changes by the parent's own end of traversal, the nested
\* last_result is the step's result, and a parent that returns after such a
\* step with a FAILED nested run is FAILED.
C11_SubWorkflowAdapter ==
  /\ [][(pc["main"] = "loop" /\ pc'["main"] = "sub_func")
        => last_result'["sub"] = last_result["main"]]_vars
  /\ [][(pc["main"] = "sub_func" /\ pc["sub"] \in Running)
        => /\ context'["main"] = context["main"]
           /\ status'["main"] = status["main"]
           /\ pc'["main"] = "sub_func"]_vars
  /\ [][(pc["main"] = "sub_func" /\ pc'["main"] # "sub_func" /\ pc["sub"] = "returned")
        => /\ HasEntries(context'["main"], context["sub"])
           /\ status["sub"] = "FAILED" => status'["main"] = "FAILED"
           /\ status["sub"] # "FAILED"
              => \/ status'["main"] = status["main"]
                 \/ status'["main"] = "COMPLETED" /\ current_step'["main"] = NONE
           /\ last_result'["main"] = last_result["sub"]
           /\ DictGet(context'["main"], current_step["main"]) = last_result["sub"]
           /\ trace'["main"].outcome = "succeeded"
           /\ UNCHANGED <<context["sub"], status["sub"], last_result["sub"]>>]_vars
  /\ [](/\ pc["main"] = "returned"
        /\ Traced("main")
        /\ TraceStep("main").is_sub_step_function
        /\ trace["main"].outcome = "succeeded"
        /\ status["sub"] = "FAILED"
        => status["main"] = "FAILED")

\* the nested run failed at S, recovered through its handler T and returned
\* FAILED; the parent merged S and T, recorded the nested last_result under
\* A and returned FAILED although none of its own steps raised
C11_Witness ==
  /\ pc["main"] = "returned"
  /\ trace["main"].step = "A"
  /\ steps["main"]["A"].is_sub_step_function
  /\ trace["main"].outcome = "succeeded"
  /\ trace["main"].exc = NoExc
  /\ status["sub"] = "FAILED"
  /\ status["main"] = "FAILED"
  /\ Keys(context["main"]) = {"S", "T", "A"}
  /\ DictGet(context["main"], "A") = last_result["sub"]

\* C12: add_step or add_sub_step_function with a name that is already
\* registered raises ValueError and leaves the registry, the cursor, the
\* context and the status as they were; with an unused name it raises
\* nothing, adds exactly that name with the given definition and keeps every
\* other entry.
C12_DuplicateRegistration ==
  [][(call' # call /\ call'.op \in {"add_step", "add_sub_step_function"})
     => IF call'.name \in DOMAIN steps["main"]
        THEN /\ call'.error.type = "ValueError"
             /\ UNCHANGED <<steps, current_step, context, status, last_result>>
        ELSE /\ call'.error = NoExc
             /\ DOMAIN steps'["main"] = DOMAIN steps["main"] \cup {call'.name}
             /\ Cardinality(DOMAIN steps'["main"]) = Cardinality(DOMAIN steps["main"]) + 1
             /\ steps'["main"][call'.name] = call'.params
             /\ \A n \in DOMAIN steps["main"] : steps'["main"][n] = steps["main"][n]
             /\ steps'["sub"] = steps["sub"]
             /\ UNCHANGED <<current_step, context, status, last_result>>]_vars

\* after an execution that filled the context, add_sub_step_function on the
\* name of a step registered with add_step has failed
C12_Witness ==
  /\ call.op = "add_sub_step_function"
  /\ call.name = "A"
  /\ call.error.type = "ValueError"
  /\ "A" \in DOMAIN steps["main"]
  /\ ~steps["main"]["A"].is_sub_step_function
  /\ context["main"] # <<>>
  /\ status["main"] = "COMPLETED"

\* C13: set_start_step with a name that is not registered raises ValueError
\* and leaves the cursor (and everything else) as it was; with a registered
\* name it raises nothing, makes the cursor that name and changes nothing else.
C13_SetStart ==
  [][(call' # call /\ call'.op = "set_start_step")
     => /\ IF call'.name \notin DOMAIN steps["main"]
           THEN call'.error.type = "ValueError" /\ current_step' = current_step
           ELSE call'.error = NoExc /\ current_step'["main"] = call'.name
        /\ current_step'["sub"] = current_step["sub"]
        /\ UNCHANGED <<steps, last_result, context, status, pc, result, raised,
                       trace, pool_vars>>]_vars

\* set_start_step on an unregistered name has failed while the cursor held
\* a registered one
C13_Witness ==
  /\ call.op = "set_start_step"
  /\ call.name = "B"
  /\ call.error.type = "ValueError"
  /\ "B" \notin DOMAIN steps["main"]
  /\ current_step["main"] = "A"

\* C14: an entry written to the context during a call of execute is neither
\* overwritten nor removed for the rest of that call.
C14_AppendOnly ==
  [][\A e \in Engines :
       (pc[e] \in Running /\ pc'[e] \in Running \cup {"returned", "raised"})
       => \A i \in 1..Len(context[e]) :
            context[e][i][1] \in trace[e].written
            => /\ i <= Len(context'[e])
               /\ context'[e][i] = context[e][i]]_vars

\* C14 as the code has it: no key is ever removed from the context or moves,
\* new keys are appended after the existing ones, and a step of execute
\* changes the value of an existing key only for the step it is executing
\* or, when that step wraps the nested engine, for a key of the nested
\* context; so a route back to an executed step overwrites its entry.
C14_ContextWrites ==
  [][\A e \in Engines :
       LET merged == IF e = "main" /\ pc[e] = "sub_func"
                     THEN Keys(context["sub"]) ELSE {}
       IN /\ Len(context'[e]) >= Len(context[e])
          /\ \A i \in 1..Len(context[e]) :
               /\ context'[e][i][1] = context[e][i][1]
               /\ context'[e][i][2] # context[e][i][2]
                  => /\ pc[e] \in Running
                     /\ context[e][i][1] \in {current_step[e]} \cup merged
          /\ \A i \in (Len(context[e]) + 1)..Len(context'[e]) :
               /\ pc[e] \in Running
               /\ context'[e][i][1] \in {current_step[e]} \cup merged
               /\ context'[e][i][1] \notin Keys(context[e])
               /\ context'[e][i][1] = current_step[e] => i = Len(context'[e])
          /\ Cardinality(Keys(context'[e])) = Len(context'[e])]_vars

\* step A routes to itself: its second execution in one call was fed the
\* first result "ok" and has replaced that entry by "bad"
C14_Witness ==
  /\ pc["main"] = "loop"
  /\ steps["main"]["A"].next_step = "A"
  /\ trace["main"].step = "A"
  /\ trace["main"].input = PyStr("ok")
  /\ trace["main"].outcome = "succeeded"
  /\ context["main"] = << <<"A", PyStr("bad")>> >>

\* C15: with stop_on_failure, once a task failure has been observed the
\* coordinator has left the completion loop and can raise the step's failure
\* at once, whether or not the other tasks have finished.
C15_StopAbandons ==
  \A e \in Engines :
    (pc[e] = "parallel" /\ should_stop_execution)
    => /\ par_pc = "exit"
       /\ ENABLED ParallelExit(e)

\* C16: after a step has failed, with or without an on_failure route, the
\* context holds an entry for that step and last_result equals it.
C16_LastResultOnFailure ==
  \A e \in Engines :
    (pc[e] \in {"loop", "returned", "raised"} /\ trace[e].outcome = "failed")
    => /\ trace[e].step \in Keys(context[e])
       /\ last_result[e] = DictGet(context[e], trace[e].step)

\* C17: when the loop of execute finds a cursor that is not a registered
\* name, execute ends with KeyError on that name; no action is called, and
\* the context, the cursor, last_result and the status stay as they were.
C17_UnknownStep ==
  [][\A e \in Engines :
       (pc[e] = "loop" /\ current_step[e] \notin DOMAIN steps[e] /\ pc'[e] # "loop")
       => /\ pc'[e] = "raised"
          /\ raised'[e] = KeyError(current_step[e])
          /\ trace'[e].step = current_step[e]
          /\ trace'[e].call = "unknown"
          /\ trace'[e].outcome = "unknown"
          /\ context'[e] = context[e]
          /\ current_step'[e] = current_step[e]
          /\ last_result'[e] = last_result[e]
          /\ status'[e] = status[e]
          /\ UNCHANGED pool_vars]_vars

\* step A succeeded and routed to B, which is not registered
C17_Witness ==
  /\ pc["main"] = "raised"
  /\ raised["main"] = KeyError("B")
  /\ "B" \notin DOMAIN steps["main"]
  /\ "A" \in Keys(context["main"])
  /\ "B" \notin Keys(context["main"])
  /\ status["main"] = "RUNNING"

\* C18: a call of execute that ended with an exception at a failed step
\* leaves the cursor on that step; a new call of execute keeps the cursor
\* and the context it finds, returns at once without executing a step when
\* the cursor is empty, and otherwise executes the step under the cursor
\* first.
C18_Reentrancy ==
  /\ [](\A e \in Engines :
          (pc[e] = "raised" /\ trace[e].outcome = "failed")
          => current_step[e] = trace[e].step)
  /\ [][pc["main"] \notin Running
        => /\ current_step' = current_step
           /\ context' = context
           /\ trace'["main"] = NoTrace
           /\ pc'["main"] = IF current_step["main"] = NONE THEN "returned" ELSE "loop"
           /\ current_step["main"] = NONE => status'["main"] = "RUNNING"]_vars
  /\ [][\A e \in Engines :
          (trace[e] = NoTrace /\ trace'[e] # NoTrace)
          => /\ pc[e] = "loop"
             /\ trace'[e].step = current_step[e]]_vars

\* a first call wrote the entry of A and raised; the next call executed A
\* again, which failed before anything was written
C18_Witness ==
  /\ pc["main"] = "raised"
  /\ raised["main"] = IndexError
  /\ trace["main"].step = "A"
  /\ current_step["main"] = "A"
  /\ trace["main"].written = {}
  /\ context["main"] = << <<"A", PyStr(Payload)>> >>

\* the value passed to the call of execute that engine e is running
InitialInputOf(e) ==
  IF e = "main" THEN PyStr(InitialInput) ELSE trace["main"].input

\* C19: the first step of a call of execute is given the call's
\* initial_input; every later step, parallel or not, is given the value the
\* context holds for the step executed just before it, and that one value is
\* what every task of a parallel step is submitted with.
C19_InputThreading ==
  [][\A e \in Engines :
       (pc[e] = "loop" /\ trace'[e] # trace[e] /\ trace'[e].call # "unknown")
       => /\ trace'[e].step = current_step[e]
          /\ trace'[e].input = last_result[e]
          /\ trace'[e].input =
               IF trace[e] = NoTrace THEN InitialInputOf(e)
               ELSE DictGet(context[e], trace[e].step)]_vars

\* A failed with a payload and routed to its handler B, a parallel step,
\* whose tasks were submitted with that payload
C19_Witness ==
  /\ pc["main"] = "parallel"
  /\ trace["main"].step = "B"
  /\ steps["main"]["A"].on_failure = "B"
  /\ trace["main"].failed
  /\ context["main"] = << <<"A", PyStr(Payload)>> >>
  /\ trace["main"].input = PyStr(Payload)

\* positions in the order of completion of the consumed tasks that failed
FailedAt == {i \in 1..Len(yielded) : futures[yielded[i]].exc # NoExc}

\* C20: in a parallel step with stop_on_failure, once a consumed task has
\* failed, the recorded results are those of the tasks consumed up to and
\* including the first failed one, the error list holds that failure only,
\* and the error the coordinator raises carries exactly that list.
C20_StopRecording ==
  \A e \in Engines :
    (/\ pc[e] = "parallel"
     /\ steps[e][current_step[e]].stop_on_failure
     /\ FailedAt # {})
    => LET k == CHOOSE i \in FailedAt : \A j \in FailedAt : i <= j
           first == << <<yielded[k], futures[yielded[k]].exc>> >>
       IN /\ DOMAIN results = {yielded[i] : i \in 1..k}
          /\ errors = first
          /\ parallel_raises(par_exc, errors, TRUE) = ParallelStepExecutionError(first)

\* C21: when a call of execute has ended, by returning or by raising, the
\* status is COMPLETED or FAILED.
C21_StatusAfterExecute ==
  \A e \in Engines :
    pc[e] \in {"returned", "raised"} => status[e] \in {"COMPLETED", "FAILED"}

\* some submitted task is still running
TasksRunning == \E t \in DOMAIN futures : futures[t] = Pending

\* C22: at most one engine is at a step at any moment (the parent of a
\* running nested engine waits in its sub-workflow step), tasks run only
\* while their parallel step is in progress, the coordinator returns or
\* raises only when every task it submitted has finished, stop-on-failure
\* included, and no step starts while a task is running.
C22_NoOverlap ==
  /\ [](/\ Cardinality({e \in Engines : pc[e] \in {"loop", "parallel"}}) <= 1
        /\ pc["sub"] \in Running => pc["main"] = "sub_func"
        /\ TasksRunning => \E e \in Engines : pc[e] = "parallel")
  /\ [][\A e \in Engines :
          LeavesParallel(e) => DOMAIN futures = Tasks /\ ~TasksRunning]_vars
  /\ [][\A e \in Engines :
          (pc[e] = "loop" /\ trace'[e] # trace[e]) => ~TasksRunning]_vars

\* a stop-on-failure step has raised ParallelStepExecutionError: the
\* coordinator has left and no task is running
C22_Witness ==
  /\ pc["main"] = "raised"
  /\ Traced("main") /\ TraceStep("main").parallel
  /\ TraceStep("main").stop_on_failure
  /\ trace["main"].exc.type = "ParallelStepExecutionError"
  /\ futures = <<>>
  /\ ~TasksRunning

(***************************************************************************)
(* Termination of execute.                                                 *)
(***************************************************************************)
\* the names a step can route to: next_step, on_failure, the branch targets
Targets(step) ==
  ({step.next_step, step.on_failure} \cup {step.branch[k] : k \in DOMAIN step.branch})
  \ {NONE}

RECURSIVE Closure(_, _)
\* the names reachable from the names in S along the routes of registry reg
Closure(reg, S) ==
  LET N == S \cup UNION {Targets(reg[n]) : n \in S \cap DOMAIN reg}
  IN IF N = S THEN S ELSE Closure(reg, N)

\* every name reachable from the cursor is registered and none of them can
\* be reached from itself
Routable(reg, cursor) ==
  \/ cursor = NONE
  \/ LET R == Closure(reg, {cursor})
     IN /\ R \subseteq DOMAIN reg
        /\ \A n \in R : n \notin Closure(reg, Targets(reg[n]))

\* the steps of a running call: every action and every task eventually
\* returns or raises, the coordinator and the loop of execute go on
StepOfExecute ==
  \/ \E e \in Engines : UnknownStep(e)
  \/ \E e \in Engines : SingleStep(e)
  \/ \E e \in Engines : ParallelSubmit(e)
  \/ \E t \in Tasks : TaskComplete(t)
  \/ \E e \in Engines : AsCompleted(e)
  \/ \E e \in Engines : ParallelExit(e)
  \/ SubCall
  \/ SubReturn

\* the engines a caller builds for the runs whose end is examined: A is a
\* callable, a stop-on-failure parallel step or a sub-workflow step that
\* routes on, with no branch and no handler; B is absent, or a callable that
\* ends the route or routes back to A
LiveRegistries ==
  {r \in Registries :
     /\ r["sub"] = SubRegistry(NONE)
     /\ r["main"]["A"].branch = <<>>
     /\ r["main"]["A"].on_failure = NONE
     /\ r["main"]["A"].next_step # NONE
     /\ r["main"]["A"].stop_on_failure = r["main"]["A"].parallel
     /\ "B" \in DOMAIN r["main"] => r["main"]["B"].func = "callable"}

InitLive == Init /\ steps \in LiveRegistries

SpecLive == InitLive /\ [][Next]_vars /\ WF_vars(StepOfExecute)

====
